---- MODULE Spec2Model ----
(***************************************************************************)
(* Model of pyrexplorer.spade: the SPADEm engine (spade.py) and its        *)
(* Element / ElementDict data model (element.py).                          *)
(*                                                                         *)
(* Encoding.                                                               *)
(*  - Items are positive integers.  A python tuple is a TLA+ sequence, so  *)
(*    a sequential pattern ((1,2),(3,)) is << <<1,2>>, <<3>> >>.           *)
(*  - An optional integer (None or n) is <<>> or <<n>>.                    *)
(*  - An Element is a record [key_item, prefix, conn_type, id_list]; a     *)
(*    prefix of None is <<>> (the code reads it through "prefix or ...").  *)
(*    id_list is a set of <<sid, eid>> pairs.                              *)
(*  - An ElementDict is the set of its Elements; its keys are the          *)
(*    sequences of the Elements (for the 1-Element dictionary, keyed by    *)
(*    the bare item in the code, the key is in bijection with the          *)
(*    sequence ((item,),)).                                                *)
(***************************************************************************)
EXTENDS Integers, Sequences, FiniteSets, TLC

\* ------------------------------------------------------------------------
\* Bounds of the model
\* ------------------------------------------------------------------------
NumItems == 3
NumSids == 2
MaxEvents == 2

\* ------------------------------------------------------------------------
\* element.py: atom types
\* ------------------------------------------------------------------------
UNKNOWN_ATOM_TYPE == 0
EVENT_ATOM_TYPE == 1
SEQUENCE_ATOM_TYPE == 2

None == <<>>
Some(n) == <<n>>
IsNone(x) == x = <<>>
Val(x) == x[1]

\* ------------------------------------------------------------------------
\* Generic helpers: python's ordering of tuples, sorting, min, sum
\* ------------------------------------------------------------------------
Min(S) == CHOOSE x \in S : \A y \in S : x <= y

RECURSIVE SumSeq(_)
SumSeq(s) == IF s = <<>> THEN 0 ELSE Head(s) + SumSeq(Tail(s))

Last(s) == s[Len(s)]
Front(s) == SubSeq(s, 1, Len(s) - 1)

\* python: a < b for two tuples of integers
RECURSIVE TupleLess(_, _)
TupleLess(a, b) ==
    IF a = <<>> THEN b # <<>>
    ELSE IF b = <<>> THEN FALSE
    ELSE IF Head(a) # Head(b) THEN Head(a) < Head(b)
    ELSE TupleLess(Tail(a), Tail(b))

\* python: a < b for two tuples of tuples of integers
RECURSIVE NestedLess(_, _)
NestedLess(a, b) ==
    IF a = <<>> THEN b # <<>>
    ELSE IF b = <<>> THEN FALSE
    ELSE IF Head(a) # Head(b) THEN TupleLess(Head(a), Head(b))
    ELSE NestedLess(Tail(a), Tail(b))

\* sorted(S) for a set of integers
RECURSIVE SortInts(_)
SortInts(S) ==
    IF S = {} THEN <<>>
    ELSE LET m == Min(S) IN <<m>> \o SortInts(S \ {m})

\* sorted(S) for a set of tuples of integers
RECURSIVE SortTuples(_)
SortTuples(S) ==
    IF S = {} THEN <<>>
    ELSE LET m == CHOOSE x \in S : \A y \in S : x = y \/ TupleLess(x, y)
         IN <<m>> \o SortTuples(S \ {m})

Range(s) == {s[i] : i \in DOMAIN s}

\* ------------------------------------------------------------------------
\* element.py: Element
\* ------------------------------------------------------------------------
\* Element.__init__ followed by update_id_list(id_list=...)
Element(item, prefix, conn_type, id_list) ==
    [key_item |-> item, prefix |-> prefix, conn_type |-> conn_type,
     id_list |-> id_list]

\* Element.generate_sequence
generate_sequence(last_item, prefix, is_sequence_atom) ==
    LET p == IF prefix = <<>> THEN << <<>> >> ELSE prefix
    IN IF is_sequence_atom
       THEN Append(p, <<last_item>>)
       ELSE Append(Front(p), Append(Last(p), last_item))

\* Element.sequence
sequence(e) ==
    generate_sequence(e.key_item, e.prefix, e.conn_type = SEQUENCE_ATOM_TYPE)

\* Element.sequence_length
sequence_length(e) == SumSeq([i \in DOMAIN e.prefix |-> Len(e.prefix[i])]) + 1

\* Element.sequence_size: python parses the body as
\*   (len(prefix or ((),)) + 1) if conn_type == SEQUENCE_ATOM_TYPE else 0
sequence_size(e) ==
    IF e.conn_type = SEQUENCE_ATOM_TYPE
    THEN Len(IF e.prefix = <<>> THEN << <<>> >> ELSE e.prefix) + 1
    ELSE 0

\* Element.support
support(e) == Cardinality({ev[1] : ev \in e.id_list})

\* ------------------------------------------------------------------------
\* element.py: ElementDict (a set of Elements with distinct sequences)
\* ------------------------------------------------------------------------
Keys(d) == {sequence(e) : e \in d}
Get(d, key) == CHOOSE e \in d : sequence(e) = key

\* ElementDict.update
Update(d, element) ==
    IF sequence(element) \in Keys(d)
    THEN LET old == Get(d, sequence(element))
         IN (d \ {old}) \cup
            {[old EXCEPT !.id_list = old.id_list \cup element.id_list]}
    ELSE d \cup {element}

\* ElementDict.remove
Remove(d, key) == {e \in d : sequence(e) # key}

\* ------------------------------------------------------------------------
\* element.py: Element.join
\* ------------------------------------------------------------------------
skip_by_cmap_WrongType(element_i, element_j, cmap) ==
    /\ DOMAIN cmap # {}
    /\ IF element_i.conn_type = EVENT_ATOM_TYPE
          /\ element_j.conn_type = EVENT_ATOM_TYPE
       THEN \/ element_i.key_item = element_j.key_item
            \/ /\ element_i.key_item < element_j.key_item
               /\ element_j.key_item \notin cmap[element_i.key_item].E
            \/ /\ element_j.key_item < element_i.key_item
               /\ element_i.key_item \notin cmap[element_j.key_item].E
       ELSE IF element_i.conn_type = SEQUENCE_ATOM_TYPE
               /\ element_j.conn_type = EVENT_ATOM_TYPE
       THEN element_i.key_item \notin cmap[element_j.key_item].E
       ELSE IF element_j.conn_type = SEQUENCE_ATOM_TYPE
               /\ element_i.conn_type = EVENT_ATOM_TYPE
       THEN element_j.key_item \notin cmap[element_i.key_item].E
       ELSE FALSE

\* lines 152-178: the CMAP test.  cmap is a function from items to records
\* [E: set of items, S: set of items]; "if cmap:" is false for the empty map
\* and for cmap=None, both modelled as the empty function.
skip_by_cmap(element_i, element_j, cmap) ==
    /\ DOMAIN cmap # {}
    /\ IF element_i.conn_type = EVENT_ATOM_TYPE
          /\ element_j.conn_type = EVENT_ATOM_TYPE
       THEN \/ element_i.key_item = element_j.key_item
            \/ /\ element_i.key_item < element_j.key_item
               /\ element_j.key_item \notin cmap[element_i.key_item].E
            \/ /\ element_j.key_item < element_i.key_item
               /\ element_i.key_item \notin cmap[element_j.key_item].E
       ELSE IF element_i.conn_type = SEQUENCE_ATOM_TYPE
               /\ element_j.conn_type = EVENT_ATOM_TYPE
       THEN element_i.key_item \notin cmap[element_j.key_item].S
       ELSE IF element_j.conn_type = SEQUENCE_ATOM_TYPE
               /\ element_i.conn_type = EVENT_ATOM_TYPE
       THEN element_j.key_item \notin cmap[element_i.key_item].S
       ELSE FALSE

JoinPair_OneDirection(element_i, element_j, pair_i, pair_j) ==
    IF pair_i[1] # pair_j[1] THEN {}
    ELSE IF pair_i[2] = pair_j[2]
    THEN IF \/ element_i.conn_type # element_j.conn_type
            \/ element_i.key_item = element_j.key_item
         THEN {}
         ELSE IF element_i.key_item < element_j.key_item
         THEN {Element(element_j.key_item, sequence(element_i),
                       EVENT_ATOM_TYPE, {<<pair_i[1], pair_i[2]>>})}
         ELSE {Element(element_i.key_item, sequence(element_j),
                       EVENT_ATOM_TYPE, {<<pair_i[1], pair_i[2]>>})}
    ELSE IF pair_i[2] < pair_j[2]
    THEN IF element_j.conn_type = EVENT_ATOM_TYPE
         THEN {}
         ELSE {Element(element_j.key_item, sequence(element_i),
                       SEQUENCE_ATOM_TYPE, {<<pair_i[1], pair_j[2]>>})}
    ELSE {}

JoinPair_SwappedKeys(element_i, element_j, pair_i, pair_j) ==
    IF pair_i[1] # pair_j[1] THEN {}
    ELSE IF pair_i[2] = pair_j[2]
    THEN IF \/ element_i.conn_type # element_j.conn_type
            \/ element_i.key_item = element_j.key_item
         THEN {}
         ELSE IF element_i.key_item < element_j.key_item
         THEN {Element(element_i.key_item, sequence(element_j),
                       EVENT_ATOM_TYPE, {<<pair_i[1], pair_i[2]>>})}
         ELSE {Element(element_j.key_item, sequence(element_i),
                       EVENT_ATOM_TYPE, {<<pair_i[1], pair_i[2]>>})}
    ELSE IF pair_i[2] < pair_j[2]
    THEN IF element_j.conn_type = EVENT_ATOM_TYPE
         THEN {}
         ELSE {Element(element_j.key_item, sequence(element_i),
                       SEQUENCE_ATOM_TYPE, {<<pair_i[1], pair_j[2]>>})}
    ELSE IF element_i.conn_type = EVENT_ATOM_TYPE
         THEN {}
         ELSE {Element(element_i.key_item, sequence(element_j),
                       SEQUENCE_ATOM_TYPE, {<<pair_i[1], pair_i[2]>>})}

\* lines 185-219: the atom made from one pair of events, as a one-event
\* Element, or no atom ({}).
JoinPair(element_i, element_j, pair_i, pair_j) ==
    IF pair_i[1] # pair_j[1] THEN {}
    ELSE IF pair_i[2] = pair_j[2]
    THEN IF \/ element_i.conn_type # element_j.conn_type
            \/ element_i.key_item = element_j.key_item
         THEN {}
         ELSE IF element_i.key_item < element_j.key_item
         THEN {Element(element_j.key_item, sequence(element_i),
                       EVENT_ATOM_TYPE, {<<pair_i[1], pair_i[2]>>})}
         ELSE {Element(element_i.key_item, sequence(element_j),
                       EVENT_ATOM_TYPE, {<<pair_i[1], pair_i[2]>>})}
    ELSE IF pair_i[2] < pair_j[2]
    THEN IF element_j.conn_type = EVENT_ATOM_TYPE
         THEN {}
         ELSE {Element(element_j.key_item, sequence(element_i),
                       SEQUENCE_ATOM_TYPE, {<<pair_i[1], pair_j[2]>>})}
    ELSE IF element_i.conn_type = EVENT_ATOM_TYPE
         THEN {}
         ELSE {Element(element_i.key_item, sequence(element_j),
                       SEQUENCE_ATOM_TYPE, {<<pair_i[1], pair_i[2]>>})}

\* lines 221-230: Elements of equal sequence are merged into one Element
MergeAtoms(atoms) ==
    {Element(a.key_item, a.prefix, a.conn_type,
             UNION {b.id_list : b \in {c \in atoms : sequence(c) = sequence(a)}})
       : a \in atoms}

\* Element.join
join(element_i, element_j, cmap) ==
    IF skip_by_cmap(element_i, element_j, cmap) THEN {}
    ELSE MergeAtoms(UNION {JoinPair(element_i, element_j, pair_i, pair_j)
                             : pair_i \in element_i.id_list,
                               pair_j \in element_j.id_list})

\* ------------------------------------------------------------------------
\* spade.py: is_subsequence
\* ------------------------------------------------------------------------
Abs(n) == IF n < 0 THEN -n ELSE n

\* lines 38-56: does sequence_i[idx_i] match sequence_j[idx_j] (1-based)
ItemMatch(sequence_i, sequence_j, level, idx_i, idx_j) ==
    IF level = 0
    THEN sequence_i[idx_i] = (IF idx_i > 1 THEN sequence_j[idx_j]
                              ELSE Abs(sequence_j[idx_j]))
    ELSE IF level = 1
    THEN Range(sequence_i[idx_i]) \subseteq Range(sequence_j[idx_j])
    ELSE FALSE

\* lines 35-64: the greedy scan, from position idx_i of sequence_i and
\* position idx_start_j of sequence_j
RECURSIVE SubsequenceScan(_, _, _, _, _)
SubsequenceScan(sequence_i, sequence_j, level, idx_i, idx_start_j) ==
    IF idx_i > Len(sequence_i) THEN TRUE
    ELSE LET hits == {idx_j \in idx_start_j..Len(sequence_j) :
                        ItemMatch(sequence_i, sequence_j, level, idx_i, idx_j)}
         IN IF hits = {} THEN FALSE
            ELSE SubsequenceScan(sequence_i, sequence_j, level,
                                 idx_i + 1, Min(hits) + 1)

is_subsequence(sequence_i, sequence_j, level) ==
    SubsequenceScan(sequence_i, sequence_j, level, 1, 1)

\* ------------------------------------------------------------------------
\* spade.py: SPADEm.is_maximal_sequence, SPADEm.add_elements
\* ------------------------------------------------------------------------
is_maximal_sequence(frequent, element_sequence) ==
    ~ \E e \in frequent : is_subsequence(element_sequence, sequence(e), 1)

\* the sort key (sequence_length, sequence_size, sequence) of add_elements
TopKeyLess(a, b) ==
    \/ sequence_length(a) < sequence_length(b)
    \/ /\ sequence_length(a) = sequence_length(b)
       /\ \/ sequence_size(a) < sequence_size(b)
          \/ /\ sequence_size(a) = sequence_size(b)
             /\ NestedLess(sequence(a), sequence(b))

\* sequences.sort(reverse=True)
RECURSIVE SortTopDesc(_)
SortTopDesc(d) ==
    IF d = {} THEN <<>>
    ELSE LET m == CHOOSE x \in d : \A y \in d : x = y \/ TopKeyLess(y, x)
         IN <<m>> \o SortTopDesc(d \ {m})

\* python: s[n:] for a list s and an integer n (negative n counts from the end)
SliceFrom(s, n) ==
    LET start == IF n < 0 THEN (IF Len(s) + n < 0 THEN 0 ELSE Len(s) + n)
                 ELSE (IF n > Len(s) THEN Len(s) ELSE n)
    IN SubSeq(s, start + 1, Len(s))

RECURSIVE UpdateAll(_, _)
UpdateAll(d, elementdict) ==
    IF elementdict = {} THEN d
    ELSE LET e == CHOOSE x \in elementdict : TRUE
         IN UpdateAll(Update(d, e), elementdict \ {e})

\* lines 123-132: the top_number cut
TopCut(d, top_number) ==
    IF ~IsNone(top_number) /\ Val(top_number) # 0
       /\ Cardinality(d) > Val(top_number)
    THEN d \ Range(SliceFrom(SortTopDesc(d), Val(top_number)))
    ELSE d

add_elements(frequent, elementdict, top_number) ==
    TopCut(UpdateAll(frequent, elementdict), top_number)

\* ------------------------------------------------------------------------
\* spade.py: SPADEm.update_cmap
\* ------------------------------------------------------------------------
EmptyCmap == [x \in {} |-> [E |-> {}, S |-> {}]]

update_cmap(cmap, element) ==
    LET master_item == element.prefix[1][1]
        connected_item == element.key_item
        withKeys == [x \in DOMAIN cmap \cup {master_item, connected_item} |->
                        IF x \in DOMAIN cmap THEN cmap[x]
                        ELSE [E |-> {}, S |-> {}]]
    IN IF element.conn_type = EVENT_ATOM_TYPE
       THEN [withKeys EXCEPT ![master_item].E = @ \cup {connected_item}]
       ELSE [withKeys EXCEPT ![master_item].S = @ \cup {connected_item}]

RECURSIVE UpdateCmapAll(_, _)
UpdateCmapAll(cmap, elements) ==
    IF elements = {} THEN cmap
    ELSE LET e == CHOOSE x \in elements : TRUE
         IN UpdateCmapAll(update_cmap(cmap, e), elements \ {e})

\* ------------------------------------------------------------------------
\* spade.py: SPADEm.generate_frequent_sequences
\* sequences is a function sid -> (function event label -> tuple of items)
\* ------------------------------------------------------------------------
EventRank_Label(labels, eid) == eid

\* enumerate(sorted(self._sequences[sid])): the 0-based rank of a label
EventRank(labels, eid) == Cardinality({l \in labels : l < eid})

\* lines 312-322: id_lists[item], as a set of (sid, e_idx)
ItemIdList(sequences, item) ==
    UNION {{<<sid, EventRank(DOMAIN sequences[sid], eid)>> :
              eid \in {l \in DOMAIN sequences[sid] :
                         item \in Range(sequences[sid][l])}}
             : sid \in DOMAIN sequences}

\* lines 313-322: sequences[sid], the items of one input sequence in event
\* order, each itemset as sorted(set(itemset))
RECURSIVE FlatItems(_, _)
FlatItems(events, labels) ==
    IF labels = {} THEN <<>>
    ELSE LET eid == Min(labels)
         IN SortInts(Range(events[eid])) \o FlatItems(events, labels \ {eid})

AllItems(sequences) ==
    UNION {UNION {Range(sequences[sid][eid]) : eid \in DOMAIN sequences[sid]}
             : sid \in DOMAIN sequences}

\* lines 324-332: the frequent 1-Elements (minimum_support is an integer here)
Freq1s(sequences, minimum_support) ==
    {Element(item, None, UNKNOWN_ATOM_TYPE, ItemIdList(sequences, item)) :
       item \in {x \in AllItems(sequences) :
                   ~(Cardinality({p[1] : p \in ItemIdList(sequences, x)})
                       < minimum_support)}}

\* lines 334-339: itemspair_frequency[(x, y)], summed over the input sequences
PairsIn(f_items, x, y) ==
    Cardinality({p \in (DOMAIN f_items) \X (DOMAIN f_items) :
                   p[1] < p[2] /\ f_items[p[1]] = x /\ f_items[p[2]] = y})

RECURSIVE PairFrequency(_, _, _, _, _)
PairFrequency(sequences, sids, f_set, x, y) ==
    IF sids = {} THEN 0
    ELSE LET sid == CHOOSE s \in sids : TRUE
             items == FlatItems(sequences[sid], DOMAIN sequences[sid])
             f_items == SelectSeq(items, LAMBDA it : it \in f_set)
         IN PairsIn(f_items, x, y)
              + PairFrequency(sequences, sids \ {sid}, f_set, x, y)

\* lines 346-348: the candidate pairs, each as a sorted pair
CandidatePairs(sequences, minimum_support, f_set) ==
    {IF k[1] <= k[2] THEN k ELSE <<k[2], k[1]>> :
       k \in {q \in f_set \X f_set :
                LET v == PairFrequency(sequences, DOMAIN sequences, f_set,
                                       q[1], q[2])
                IN v >= 1 /\ v >= minimum_support}}

FrequentOf_NoFloor(elementdict, minimum_support) == elementdict

\* lines 356-358, 410-411: the Elements of a join that reach the support
FrequentOf(elementdict, minimum_support) ==
    {e \in elementdict : ~(support(e) < minimum_support)}

\* the 1-Element of an item
ItemElement(freq_1s, item) == CHOOSE e \in freq_1s : e.key_item = item

\* lines 350-364 for one candidate pair
PairJoin(freq_1s, pair, minimum_support) ==
    FrequentOf(join(ItemElement(freq_1s, pair[1]),
                    ItemElement(freq_1s, pair[2]), EmptyCmap),
               minimum_support)

RECURSIVE UpdateEach(_, _)
UpdateEach(d, dicts) ==
    IF dicts = {} THEN d
    ELSE LET x == CHOOSE y \in dicts : TRUE
         IN UpdateEach(UpdateAll(d, x), dicts \ {x})

\* SPADEm.generate_frequent_sequences, past the guard of lines 309-310:
\* the two ElementDicts and the CMAP it leaves in self._cmap
generate_frequent_sequences(sequences, minimum_support, max_length, cmap) ==
    LET all_1s == Freq1s(sequences, minimum_support)
        f_set == {e.key_item : e \in all_1s}
        with_2s == IsNone(max_length) \/ Val(max_length) > 1
        pairs == IF with_2s
                 THEN CandidatePairs(sequences, minimum_support, f_set)
                 ELSE {}
        freq_2s == UpdateEach({}, {PairJoin(all_1s, pr, minimum_support)
                                     : pr \in pairs})
        used == UNION {{pr[1], pr[2]} :
                         pr \in {q \in pairs :
                                   PairJoin(all_1s, q, minimum_support) # {}}}
    IN [freq_1s |-> {e \in all_1s : e.key_item \notin used},
        freq_2s |-> freq_2s,
        cmap |-> UpdateCmapAll(cmap, freq_2s)]

NotConfigured_SupportOnly(sequences, minimum_support) ==
    IsNone(minimum_support) \/ Val(minimum_support) = 0

\* lines 309-310: the guard of generate_frequent_sequences
NotConfigured(sequences, minimum_support) ==
    \/ DOMAIN sequences = {}
    \/ IsNone(minimum_support)
    \/ Val(minimum_support) = 0

\* ------------------------------------------------------------------------
\* spade.py: SPADEm.grouped
\* An equivalence class of the result is a record
\*   [idx: set of 1-based master indices, keys: BOOLEAN, elements: sequence]
\* keys = FALSE: idx is the python list idx_list (ascending);
\* keys = TRUE: idx is idx_dict.keys(), a dict view with no defined order.
\* ------------------------------------------------------------------------
\* sorted(S, key) for a set S and the strict total order that the key gives
\* to its members, as the set of the pairs <<y, x>> with y before x
SortBy(S, before) ==
    [i \in 1..Cardinality(S) |->
       CHOOSE x \in S : Cardinality({y \in S : <<y, x>> \in before}) = i - 1]

\* lines 149-153 and 162: tuple(sorted(min_eids.items()))
MinEids(element) ==
    LET sids == {p[1] : p \in element.id_list}
        min_eid(sid) == Min({p[2] : p \in {q \in element.id_list : q[1] = sid}})
    IN [i \in 1..Cardinality(sids) |->
          LET sid == SortInts(sids)[i] IN <<sid, min_eid(sid)>>]

\* lines 155-159: prefixes[prefix], as the set of its (sid, min eid) pairs
PrefixMinEids(elements, prefix) ==
    LET events == UNION {e.id_list : e \in {x \in elements : x.prefix = prefix}}
    IN {<<sid, Min({p[2] : p \in {q \in events : q[1] = sid}})>>
          : sid \in {p[1] : p \in events}}

RECURSIVE SumSet(_)
SumSet(pairs) ==
    IF pairs = {} THEN 0
    ELSE LET p == CHOOSE x \in pairs : TRUE IN p[2] + SumSet(pairs \ {p})

\* lines 165-169: the sort key of the classes
PrefixLess(elements, p, q) ==
    LET kp == <<SumSet(PrefixMinEids(elements, p)),
                Min({x[2] : x \in PrefixMinEids(elements, p)}), Len(p)>>
        kq == <<SumSet(PrefixMinEids(elements, q)),
                Min({x[2] : x \in PrefixMinEids(elements, q)}), Len(q)>>
    IN IF kp # kq THEN TupleLess(kp, kq) ELSE NestedLess(p, q)

\* lines 173-186: sequences_per_sid of one class
SequencesPerSid(class, prefix) ==
    LET events == UNION {e.id_list : e \in class}
        own(sid) == UNION {{<<p[2], e.conn_type, e.key_item>> :
                              p \in {q \in e.id_list : q[1] = sid}}
                             : e \in class}
        signed(t) == IF t[2] = SEQUENCE_ATOM_TYPE THEN -t[3] ELSE t[3]
    IN [sid \in {p[1] : p \in events} |->
          LET sorted == SortTuples(own(sid))
          IN <<Last(Last(prefix))>>
               \o [i \in DOMAIN sorted |-> signed(sorted[i])]]

GetOr(f, k) == IF k \in DOMAIN f THEN f[k] ELSE <<>>

\* lines 188-201: the loop over grouped_maximum_sequences (rotate / popleft)
RECURSIVE RotateLoop(_, _, _)
RotateLoop(gms, sequences_per_sid, n) ==
    IF n = 0 THEN gms
    ELSE LET grouped_sequences == Head(gms)
             skip_sequences_set ==
               \E sid \in DOMAIN grouped_sequences :
                  ~is_subsequence(grouped_sequences[sid],
                                  GetOr(sequences_per_sid, sid), 0)
         IN IF skip_sequences_set
            THEN RotateLoop(Append(Tail(gms), grouped_sequences),
                            sequences_per_sid, n - 1)
            ELSE RotateLoop(Tail(gms), sequences_per_sid, n - 1)

\* lines 203-215: skip_prefix
SkipPrefix(gms, sequences_per_sid) ==
    \E i \in DOMAIN gms :
       \A sid \in DOMAIN sequences_per_sid :
          is_subsequence(sequences_per_sid[sid], GetOr(gms[i], sid), 0)

\* line 229-231: the sort key of the members of a class
MemberLess(a, b) ==
    IF a.conn_type # b.conn_type THEN a.conn_type < b.conn_type
    ELSE IF MinEids(a) # MinEids(b) THEN NestedLess(MinEids(a), MinEids(b))
    ELSE a.key_item < b.key_item

KeyItemLess(a, b) == a.key_item < b.key_item

\* lines 235-244: idx_list of a class whose first member is an event atom
EventIdx(els) ==
    {i \in DOMAIN els :
       /\ \A j \in 1..i : els[j].conn_type = EVENT_ATOM_TYPE
       /\ (i = 1 \/ MinEids(els[i]) # MinEids(els[i - 1]))}

\* lines 256-278: idx_dict of a class of sequence atoms
RECURSIVE IdxDict(_, _, _, _)
IdxDict(elements_, cmap, idx_i, idx_dict) ==
    IF idx_i > Len(elements_) THEN idx_dict
    ELSE LET item == elements_[idx_i].key_item
             current_group ==
               {elements_[idx_j].key_item :
                  idx_j \in {j \in (idx_i + 1)..Len(elements_) :
                               elements_[j].key_item \in cmap[item].E}}
               \cup {item}
             skip_group == \E idx \in DOMAIN idx_dict :
                              current_group \subseteq idx_dict[idx]
         IN IdxDict(elements_, cmap, idx_i + 1,
                    IF skip_group THEN idx_dict
                    ELSE [k \in DOMAIN idx_dict \cup {idx_i} |->
                            IF k = idx_i THEN current_group ELSE idx_dict[k]])

\* lines 222-283: the record appended to output for one class
ClassData(class, cmap) ==
    IF Cardinality(class) = 1
    THEN [idx |-> {1}, keys |-> FALSE,
          elements |-> <<CHOOSE e \in class : TRUE>>]
    ELSE LET sorted == SortBy(class, {p \in class \X class : MemberLess(p[1], p[2])})
         IN IF sorted[1].conn_type = EVENT_ATOM_TYPE
            THEN [idx |-> EventIdx(sorted), keys |-> FALSE, elements |-> sorted]
            ELSE LET elements_ == SortBy(class, {p \in class \X class : KeyItemLess(p[1], p[2])})
                 IN [idx |-> DOMAIN IdxDict(elements_, cmap, 1,
                                            [k \in {} |-> {}]),
                     keys |-> TRUE, elements |-> elements_]

\* lines 165-283: the loop over the sorted prefixes
RECURSIVE GroupLoop(_, _, _, _, _, _)
GroupLoop(elements, cmap, prefixes, i, gms, output) ==
    IF i > Len(prefixes) THEN output
    ELSE LET prefix == prefixes[i]
             class == {e \in elements : e.prefix = prefix}
         IN IF Len(prefixes) > 1
            THEN LET sequences_per_sid == SequencesPerSid(class, prefix)
                     kept == RotateLoop(gms, sequences_per_sid, Len(gms))
                 IN IF SkipPrefix(kept, sequences_per_sid)
                    THEN GroupLoop(elements, cmap, prefixes, i + 1, kept,
                                   output)
                    ELSE GroupLoop(elements, cmap, prefixes, i + 1,
                                   Append(kept, sequences_per_sid),
                                   Append(output, ClassData(class, cmap)))
            ELSE GroupLoop(elements, cmap, prefixes, i + 1, gms,
                           Append(output, ClassData(class, cmap)))

\* SPADEm.grouped
grouped(elements, cmap) ==
    LET prefixes == {e.prefix : e \in elements}
        before == {p \in prefixes \X prefixes :
                     PrefixLess(elements, p[1], p[2])}
    IN GroupLoop(elements, cmap, SortBy(prefixes, before), 1, <<>>, <<>>)

\* ------------------------------------------------------------------------
\* spade.py: SPADEm.enumerate_frequent_sequences, one pass of its while loop
\* ------------------------------------------------------------------------
\* lines 395-422: the loop over the master indices, taken in the given order.
\* dead is the set of indices whose slot of data['elements'] is None.
RECURSIVE MastersLoop(_, _, _, _, _, _, _)
MastersLoop(els, order, k, dead, inner, masters, ctx) ==
    IF k > Len(order) THEN [inner |-> inner, masters |-> masters]
    ELSE LET master_idx == order[k]
             master_element == els[master_idx]
             joined == {FrequentOf(join(master_element, els[idx], ctx.cmap),
                                   ctx.minimum_support)
                          : idx \in (DOMAIN els) \ dead}
             no_counter == \A d \in joined : d = {}
         IN MastersLoop(els, order, k + 1, dead \cup {master_idx},
                        UpdateEach(inner, joined),
                        IF no_counter
                           /\ is_maximal_sequence(ctx.frequent,
                                                  sequence(master_element))
                        THEN Remove(masters, sequence(master_element))
                               \cup {master_element}
                        ELSE masters,
                        ctx)

\* lines 436-444: the loop over the keys of frequent_inner_elementdict
RECURSIVE PromoteLoop(_, _, _)
PromoteLoop(todo, inner, frequent) ==
    IF todo = {} THEN [inner |-> inner, frequent |-> frequent]
    ELSE LET e == CHOOSE x \in todo : TRUE
         IN IF ~is_maximal_sequence(frequent, sequence(e))
            THEN PromoteLoop(todo \ {e}, Remove(inner, sequence(e)), frequent)
            ELSE PromoteLoop(todo \ {e}, inner,
                             {p \in frequent :
                                ~is_subsequence(sequence(p), sequence(e), 1)})

Recurses_NoCap(inner, current_element_length, max_length) ==
    Cardinality(inner) > 1

\* lines 424-425: does the loop go one level deeper
Recurses(inner, current_element_length, max_length) ==
    /\ Cardinality(inner) > 1
    /\ (IsNone(max_length) \/ current_element_length + 1 # Val(max_length))

\* lines 424-450: what becomes of the pool and of the queue after the masters
AfterMasters(res, current_element_length, frequent, rest, ctx) ==
    LET recurse == Recurses(res.inner, current_element_length, ctx.max_length)
        promoted == PromoteLoop(res.inner, res.inner, frequent)
        pool1 == IF recurse \/ res.inner = {} THEN frequent
                 ELSE add_elements(promoted.frequent, promoted.inner,
                                   ctx.top_number)
        pool2 == IF res.masters # {}
                 THEN add_elements(pool1, res.masters, None)
                 ELSE pool1
    IN [frequent |-> pool2,
        queue |-> IF recurse THEN grouped(res.inner, ctx.cmap) \o rest
                  ELSE rest]

EnumeratePass_NoPop(frequent, queue, order, ctx) ==
    LET data == Head(queue)
        res == MastersLoop(data.elements, order, 1, {}, {}, {},
                           [cmap |-> ctx.cmap,
                            minimum_support |-> ctx.minimum_support,
                            frequent |-> frequent])
    IN AfterMasters(res, sequence_length(data.elements[1]), frequent,
                    queue, ctx)

\* lines 392-453: one pass of "while grouped_elements"; order is the order
\* in which data['idx'] is iterated.  ctx carries self._cmap,
\* self._minimum_support, max_length and top_number.
EnumeratePass(frequent, queue, order, ctx) ==
    LET data == Head(queue)
        res == MastersLoop(data.elements, order, 1, {}, {}, {},
                           [cmap |-> ctx.cmap,
                            minimum_support |-> ctx.minimum_support,
                            frequent |-> frequent])
    IN AfterMasters(res, sequence_length(data.elements[1]), frequent,
                    Tail(queue), ctx)

\* the orders in which "for master_idx in data['idx']" can run
OrdersOf(S) ==
    {f \in [1..Cardinality(S) -> S] : Range(f) = S}

IdxOrders(data) ==
    IF data.keys THEN OrdersOf(data.idx) ELSE {SortInts(data.idx)}

\* the whole while loop with every idx taken in ascending order, which is
\* the order CPython 2 gives to a dict of small integer keys
RECURSIVE EnumerateAll(_, _, _)
EnumerateAll(frequent, queue, ctx) ==
    IF queue = <<>> THEN frequent
    ELSE LET nxt == EnumeratePass(frequent, queue,
                                  SortInts(Head(queue).idx), ctx)
         IN EnumerateAll(nxt.frequent, nxt.queue, ctx)

\* ------------------------------------------------------------------------
\* spade.py: SPADEm.execute
\* ------------------------------------------------------------------------
\* line 474: is enumerate_frequent_sequences called
Enumerates(freq_2s, max_length) ==
    freq_2s # {} /\ (IsNone(max_length) \/ Val(max_length) > 2)

\* lines 487-490: the sort key (length, size, prefix, key_item); a prefix of
\* None sorts before every tuple
OutputLess(a, b) ==
    IF sequence_length(a) # sequence_length(b)
    THEN sequence_length(a) < sequence_length(b)
    ELSE IF sequence_size(a) # sequence_size(b)
    THEN sequence_size(a) < sequence_size(b)
    ELSE IF a.prefix # b.prefix THEN NestedLess(a.prefix, b.prefix)
    ELSE a.key_item < b.key_item

\* dict.values(): the Elements of a pool in some order
RECURSIVE ValuesOf(_)
ValuesOf(d) ==
    IF d = {} THEN <<>>
    ELSE LET e == CHOOSE x \in d : TRUE IN <<e>> \o ValuesOf(d \ {e})

\* lines 481-492
Assemble(frequent, freq_1s, sort, top_number) ==
    LET pool == IF freq_1s # {}
                THEN add_elements(frequent, freq_1s, top_number)
                ELSE frequent
    IN [frequent |-> pool,
        output |-> IF sort THEN SortBy(pool, {p \in pool \X pool : OutputLess(p[1], p[2])}) ELSE ValuesOf(pool)]

\* execute of a fresh engine after set(sequences, minimum_support), run to
\* its end with ascending idx order: "raised" or the returned list
ExecuteFresh(sequences, minimum_support, sort, max_length, top_number) ==
    IF NotConfigured(sequences, minimum_support)
    THEN [raised |-> TRUE, output |-> <<>>]
    ELSE LET gen == generate_frequent_sequences(
                        sequences, Val(minimum_support), max_length, EmptyCmap)
             ctx == [cmap |-> gen.cmap,
                     minimum_support |-> Val(minimum_support),
                     max_length |-> max_length, top_number |-> top_number]
             pool == IF Enumerates(gen.freq_2s, max_length)
                     THEN EnumerateAll({}, grouped(gen.freq_2s, gen.cmap), ctx)
                     ELSE {}
         IN [raised |-> FALSE,
             output |-> Assemble(pool, gen.freq_1s, sort, top_number).output]

\* ------------------------------------------------------------------------
\* The engine as a state machine
\* ------------------------------------------------------------------------
VARIABLES
    sequences,         \* self._sequences
    minimum_support,   \* self._minimum_support
    cmap,              \* self._cmap
    frequent,          \* self._frequent_elementdict
    pc,                \* "idle", or "enumerate" while execute is running
    args,              \* the arguments of the running / last execute call
    freq_1s,           \* execute's local freq_1s_elementdict
    grouped_elements,  \* enumerate_frequent_sequences' local work queue
    outcome,           \* of the last call: "none", "returned" or "raised"
    output,            \* the list returned by the last execute
    last_set,          \* the keyword arguments of the last set call
    sets,              \* number of set calls made
    executes           \* number of execute calls made

vars == <<sequences, minimum_support, cmap, frequent, pc, args, freq_1s,
          grouped_elements, outcome, output, last_set, sets, executes>>

\* the keyword arguments of set: is_dict says whether 'sequences' was passed
\* and is a dict
Kwargs(is_dict, seqs, ms) ==
    [is_dict |-> is_dict, sequences |-> seqs, minimum_support |-> ms]

NoArgs == [sort |-> FALSE, max_length |-> None, top_number |-> None]

\* SPADEm.__init__
Init ==
    /\ sequences = <<>>
    /\ minimum_support = None
    /\ cmap = EmptyCmap
    /\ frequent = {}
    /\ pc = "idle"
    /\ args = NoArgs
    /\ freq_1s = {}
    /\ grouped_elements = <<>>
    /\ outcome = "none"
    /\ output = <<>>
    /\ last_set = Kwargs(FALSE, <<>>, None)
    /\ sets = 0
    /\ executes = 0

\* SPADEm.set
Set(kwargs) ==
    /\ pc = "idle"
    /\ sequences' = IF kwargs.is_dict THEN kwargs.sequences ELSE sequences
    /\ minimum_support' = kwargs.minimum_support
    /\ last_set' = kwargs
    /\ sets' = sets + 1
    /\ outcome' = "none"
    /\ output' = <<>>
    /\ UNCHANGED <<cmap, frequent, pc, args, freq_1s, grouped_elements,
                   executes>>

\* SPADEm.execute, lines 468-479 up to the first pass of the while loop
Execute(sort, max_length, top_number) ==
    /\ pc = "idle"
    /\ args' = [sort |-> sort, max_length |-> max_length,
                top_number |-> top_number]
    /\ executes' = executes + 1
    /\ frequent' = {}
    /\ output' = <<>>
    /\ IF NotConfigured(sequences, minimum_support)
       THEN /\ cmap' = EmptyCmap
            /\ outcome' = "raised"
            /\ pc' = "idle"
            /\ freq_1s' = {}
            /\ grouped_elements' = <<>>
       ELSE LET gen == generate_frequent_sequences(
                           sequences, Val(minimum_support), max_length,
                           EmptyCmap)
            IN /\ cmap' = gen.cmap
               /\ outcome' = "none"
               /\ pc' = "enumerate"
               /\ freq_1s' = gen.freq_1s
               /\ grouped_elements' =
                    IF Enumerates(gen.freq_2s, max_length)
                    THEN grouped(gen.freq_2s, gen.cmap)
                    ELSE <<>>
    /\ UNCHANGED <<sequences, minimum_support, last_set, sets>>

\* one pass of the while loop of enumerate_frequent_sequences
EnumerateStep ==
    /\ pc = "enumerate"
    /\ grouped_elements # <<>>
    /\ \E order \in IdxOrders(Head(grouped_elements)) :
          LET nxt == EnumeratePass(frequent, grouped_elements, order,
                                   [cmap |-> cmap,
                                    minimum_support |-> Val(minimum_support),
                                    max_length |-> args.max_length,
                                    top_number |-> args.top_number])
          IN /\ frequent' = nxt.frequent
             /\ grouped_elements' = nxt.queue
    /\ UNCHANGED <<sequences, minimum_support, cmap, pc, args, freq_1s,
                   outcome, output, last_set, sets, executes>>

\* SPADEm.execute, lines 481-492
Return ==
    /\ pc = "enumerate"
    /\ grouped_elements = <<>>
    /\ LET a == Assemble(frequent, freq_1s, args.sort, args.top_number)
       IN /\ frequent' = a.frequent
          /\ output' = a.output
    /\ outcome' = "returned"
    /\ pc' = "idle"
    /\ freq_1s' = {}
    /\ UNCHANGED <<sequences, minimum_support, cmap, args, grouped_elements,
                   last_set, sets, executes>>

\* ------------------------------------------------------------------------
\* Inputs
\* ------------------------------------------------------------------------
\* the canonical itemsets over the items 1..n
ItemSets(n) == {SortInts(S) : S \in (SUBSET (1..n)) \ {{}}}

\* input sequences of 1..m events, labelled 1, 2, ...
EventSeqs(n, m) == UNION {[1..k -> ItemSets(n)] : k \in 1..m}

Databases(n, m) == [1..NumSids -> EventSeqs(n, m)]

MineKwargs ==
    {Kwargs(TRUE, db, Some(ms)) : db \in Databases(NumItems, MaxEvents), ms \in 1..NumSids}

\* one engine, configured once and executed once with the default options
Next ==
    \/ (sets = 0 /\ executes = 0 /\ \E kwargs \in MineKwargs : Set(kwargs))
    \/ (executes = 0 /\ Execute(FALSE, None, None))
    \/ EnumerateStep
    \/ Return

Spec == Init /\ [][Next]_vars

\* ------------------------------------------------------------------------
\* A second specification: every option of execute and every value of
\* minimum_support, valid or not, over the databases of one item less
\* ------------------------------------------------------------------------
MaxLengthArg == 4
MaxTopArg == 2

OptionKwargs ==
    {Kwargs(TRUE, db, ms) :
       db \in Databases(NumItems - 1, MaxEvents) \cup {<<>>},
       ms \in {None} \cup {Some(n) : n \in (-1)..NumSids}}

LengthArgs == {None} \cup {Some(n) : n \in 0..MaxLengthArg}
TopArgs == {None} \cup {Some(n) : n \in (-1)..MaxTopArg}

NextOptions ==
    \/ (sets = 0 /\ executes = 0 /\ \E kwargs \in OptionKwargs : Set(kwargs))
    \/ (executes = 0 /\ pc = "idle"
        /\ \E sort \in BOOLEAN, max_length \in LengthArgs, top_number \in TopArgs :
              Execute(sort, max_length, top_number))
    \/ EnumerateStep
    \/ Return

SpecOptions == Init /\ [][NextOptions]_vars

\* ------------------------------------------------------------------------
\* A third specification: the events of the input under arbitrary labels
\* ------------------------------------------------------------------------
\* 1..MaxEvents events under any labels of 1..MaxEvents + 1
LabelledEvents(n) ==
    UNION {[labels -> ItemSets(n)] :
             labels \in {L \in SUBSET (1..(MaxEvents + 1)) :
                           Cardinality(L) \in 1..MaxEvents}}

LabelKwargs ==
    {Kwargs(TRUE, db, Some(ms)) :
       db \in [1..NumSids -> LabelledEvents(NumItems - 1)], ms \in 1..NumSids}

NextLabels ==
    \/ (sets = 0 /\ executes = 0 /\ \E kwargs \in LabelKwargs : Set(kwargs))
    \/ (executes = 0 /\ Execute(FALSE, None, None))
    \/ EnumerateStep
    \/ Return

SpecLabels == Init /\ [][NextLabels]_vars

\* ------------------------------------------------------------------------
\* A specification of raw input: itemsets given as any tuple of items,
\* unsorted or with an item repeated
\* ------------------------------------------------------------------------
MaxRawLen == 2

RawItemSets(n) == UNION {[1..k -> 1..n] : k \in 1..MaxRawLen}

RawKwargs ==
    {Kwargs(TRUE, db, Some(ms)) :
       db \in [1..NumSids ->
                 UNION {[1..k -> RawItemSets(NumItems - 1)] : k \in 1..MaxEvents}],
       ms \in 1..NumSids}

NextRaw ==
    \/ (sets = 0 /\ executes = 0 /\ \E kwargs \in RawKwargs : Set(kwargs))
    \/ (executes = 0 /\ Execute(FALSE, None, None))
    \/ EnumerateStep
    \/ Return

SpecRaw == Init /\ [][NextRaw]_vars

\* ------------------------------------------------------------------------
\* A specification of one execute call run to its end, on input sequences
\* of up to MaxLiveEvents events, where an item can follow itself more than
\* once.  execute is one synchronous call: once started, the passes of its
\* loop and its return are taken.
\* ------------------------------------------------------------------------
MaxLiveEvents == 3

LiveKwargs ==
    {Kwargs(TRUE, db, Some(ms)) :
       db \in Databases(NumItems - 1, MaxLiveEvents), ms \in 1..NumSids}

NextLive ==
    \/ (sets = 0 /\ executes = 0 /\ \E kwargs \in LiveKwargs : Set(kwargs))
    \/ (executes = 0 /\ Execute(FALSE, None, None))
    \/ EnumerateStep
    \/ Return

SpecLive ==
    Init /\ [][NextLive]_vars /\ WF_vars(EnumerateStep) /\ WF_vars(Return)

\* ------------------------------------------------------------------------
\* A fourth specification: one engine instance set and executed again and
\* again, over the one-event databases of one item less
\* ------------------------------------------------------------------------
MaxSets == 2
MaxExecutes == 2

ReuseKwargs ==
    {Kwargs(TRUE, db, ms) :
       db \in Databases(NumItems - 1, MaxEvents - 1) \cup {<<>>},
       ms \in {None} \cup {Some(n) : n \in (-1)..NumSids}}
    \cup {Kwargs(FALSE, <<>>, ms) :
             ms \in {None} \cup {Some(n) : n \in (-1)..NumSids}}

NextReuse ==
    \/ (sets < MaxSets /\ pc = "idle" /\ \E kwargs \in ReuseKwargs : Set(kwargs))
    \/ (executes < MaxExecutes /\ Execute(FALSE, None, None))
    \/ EnumerateStep
    \/ Return

SpecReuse == Init /\ [][NextReuse]_vars

\* ------------------------------------------------------------------------
\* Sequential patterns, stated independently of the engine
\* ------------------------------------------------------------------------
\* the strictly increasing maps from 1..m to 1..n
StrictMaps(m, n) ==
    {f \in [1..m -> 1..n] : \A i \in 1..m : \A j \in 1..m : i < j => f[i] < f[j]}

\* pattern p is a subsequence of pattern q
SubPattern(p, q) ==
    \E f \in StrictMaps(Len(p), Len(q)) :
       \A i \in 1..Len(p) : Range(p[i]) \subseteq Range(q[f[i]])

\* the events of input sequence sid in ascending order of their labels,
\* each as its set of items
EventsOf(seqs, sid) ==
    LET labels == SortInts(DOMAIN seqs[sid])
    IN [r \in 1..Len(labels) |-> Range(seqs[sid][labels[r]])]

\* pattern p occurs in the events, its last itemset at the event of 0-based
\* rank r
OccursAt(events, p, r) ==
    \E f \in StrictMaps(Len(p), Len(events)) :
       /\ f[Len(p)] = r + 1
       /\ \A i \in 1..Len(p) : Range(p[i]) \subseteq events[f[i]]

Occurs(events, p) == \E r \in 0..(Len(events) - 1) : OccursAt(events, p, r)

\* number of distinct input sequences that contain p
SupportOf(seqs, p) ==
    Cardinality({sid \in DOMAIN seqs : Occurs(EventsOf(seqs, sid), p)})

\* every pattern that occurs in the events
PatternsIn(events) ==
    LET itemsets == ItemSets(NumItems)
    IN UNION {UNION {{p \in [1..k -> itemsets] :
                        \A i \in 1..k : Range(p[i]) \subseteq events[f[i]]}
                       : f \in StrictMaps(k, Len(events))}
                : k \in 1..Len(events)}

\* every pattern whose support reaches ms
FrequentPatterns(seqs, ms) ==
    {p \in UNION {PatternsIn(EventsOf(seqs, sid)) : sid \in DOMAIN seqs} :
       SupportOf(seqs, p) >= ms}

Returned == pc = "idle" /\ outcome = "returned"
Raised == pc = "idle" /\ outcome = "raised"

OutputSequences == {sequence(output[k]) : k \in DOMAIN output}
ResultSet(out) == {<<sequence(out[k]), out[k].id_list>> : k \in DOMAIN out}

\* ------------------------------------------------------------------------
\* Claims
\* ------------------------------------------------------------------------
\* C1: the list returned by execute contains no two Elements e # f such that
\* e.sequence is a subsequence of f.sequence.
C1_NoSubsequenceReturned ==
    Returned =>
       \A p \in OutputSequences : \A q \in OutputSequences :
          p # q => ~SubPattern(p, q)

\* C2: with max_length and top_number unset, every pattern whose support is
\* >= min_support is a subsequence of the sequence of a returned Element.
C2_EveryFrequentPatternCovered ==
    (Returned /\ IsNone(args.max_length) /\ IsNone(args.top_number)) =>
       \A p \in FrequentPatterns(sequences, Val(minimum_support)) :
          \E q \in OutputSequences : SubPattern(p, q)

\* C10: every execution on the same sequences, min_support and options
\* returns the same set of (sequence, id_list) pairs (the same list when
\* sort is set), whatever the order in which the master indices are taken.
C10_Deterministic ==
    Returned =>
       LET ref == ExecuteFresh(sequences, minimum_support, args.sort,
                               args.max_length, args.top_number)
       IN /\ ResultSet(output) = ResultSet(ref.output)
          /\ (args.sort => output = ref.output)

PatternLength(p) == SumSeq([i \in DOMAIN p |-> Len(p[i])])

\* C3: every Element returned by execute has support (number of distinct
\* sids in its id_list) >= min_support, whatever sort, max_length and
\* top_number are.
C3_SupportFloor ==
    Returned =>
       \A k \in DOMAIN output :
          Cardinality({ev[1] : ev \in output[k].id_list}) >= Val(minimum_support)

\* a run with every option set and min_support 2 that returns something,
\* on an input with a pattern of support 1
C3_Witness ==
    /\ Returned
    /\ Val(minimum_support) = 2
    /\ args.sort /\ ~IsNone(args.max_length) /\ ~IsNone(args.top_number)
    /\ output # <<>>
    /\ \E p \in FrequentPatterns(sequences, 1) :
          Len(p) = 1 /\ Len(p[1]) = 2 /\ SupportOf(sequences, p) = 1

\* C4: for every returned Element e and every (sid, r) in e.id_list, r is
\* the 0-based rank of an event of input sequence sid (events in ascending
\* order of their labels) and sid contains e.sequence with its last itemset
\* at rank r and its earlier itemsets at strictly increasing earlier ranks.
C4_WitnessesValid ==
    Returned =>
       \A k \in DOMAIN output : \A ev \in output[k].id_list :
          /\ ev[1] \in DOMAIN sequences
          /\ ev[2] \in 0..(Cardinality(DOMAIN sequences[ev[1]]) - 1)
          /\ OccursAt(EventsOf(sequences, ev[1]), sequence(output[k]), ev[2])

\* a returned sequence atom witnessed at rank 1 of an input sequence whose
\* labels are not 1, 2
C4_Witness ==
    /\ Returned
    /\ \E k \in DOMAIN output : \E ev \in output[k].id_list :
          /\ output[k].conn_type = SEQUENCE_ATOM_TYPE
          /\ ev[2] = 1
          /\ 1 \notin DOMAIN sequences[ev[1]]

\* C5: if top_number = N >= 1, the returned list has at most N Elements, and
\* they are the N largest by (length, size) among the Elements returned for
\* the same input without top_number.
C5_TopNumber ==
    (Returned /\ ~IsNone(args.top_number) /\ Val(args.top_number) >= 1) =>
       LET N == Val(args.top_number)
           base == Range(ExecuteFresh(sequences, minimum_support, args.sort,
                                      args.max_length, None).output)
           got == Range(output)
       IN /\ Len(output) <= N
          /\ got \subseteq base
          /\ Cardinality(got) = (IF Cardinality(base) < N
                                 THEN Cardinality(base) ELSE N)
          /\ \A e \in got : \A f \in base \ got :
                ~TupleLess(<<sequence_length(e), sequence_size(e)>>,
                           <<sequence_length(f), sequence_size(f)>>)

\* C6: if max_length = L >= 1, every returned Element has length (total
\* number of item occurrences of its sequence) <= L.
C6_LengthBound ==
    (Returned /\ ~IsNone(args.max_length) /\ Val(args.max_length) >= 1) =>
       \A k \in DOMAIN output :
          PatternLength(sequence(output[k])) <= Val(args.max_length)

\* a run with max_length = 3 that returns a 3-sequence on an input that has
\* a frequent 4-sequence
C6_Witness ==
    /\ Returned
    /\ args.max_length = Some(3)
    /\ Val(minimum_support) >= 1
    /\ \E k \in DOMAIN output : PatternLength(sequence(output[k])) = 3
    /\ \E p \in FrequentPatterns(sequences, Val(minimum_support)) :
          PatternLength(p) = 4

\* C7: execute on an engine whose sequences are empty fails for any
\* minimum_support, returns no Elements and leaves the frequent pool and
\* the CMAP empty.
C7_EmptySequencesRaise ==
    (pc = "idle" /\ outcome # "none" /\ DOMAIN sequences = {}) =>
       /\ outcome = "raised"
       /\ output = <<>>
       /\ frequent = {}
       /\ DOMAIN cmap = {}

\* the second execute of an engine, with a valid minimum_support and empty
\* sequences
C7_Witness ==
    /\ Raised
    /\ DOMAIN sequences = {}
    /\ executes = 2
    /\ ~IsNone(minimum_support) /\ Val(minimum_support) >= 1

\* C8: execute fails, returning no Elements, whenever minimum_support is
\* unset or non-positive, max_length < 1 or top_number <= 0.
C8_InvalidParametersRaise ==
    (/\ pc = "idle"
     /\ outcome # "none"
     /\ \/ IsNone(minimum_support)
        \/ Val(minimum_support) <= 0
        \/ (~IsNone(args.max_length) /\ Val(args.max_length) < 1)
        \/ (~IsNone(args.top_number) /\ Val(args.top_number) <= 0))
    => (outcome = "raised" /\ output = <<>>)

\* C9: after any sequence of set and execute calls, the outcome of the next
\* execute is the outcome a fresh engine gives for the arguments of the
\* most recent set call alone.
C9_AsFreshEngine ==
    (pc = "idle" /\ outcome # "none") =>
       LET fresh == ExecuteFresh(
                        IF last_set.is_dict THEN last_set.sequences ELSE <<>>,
                        last_set.minimum_support, args.sort,
                        args.max_length, args.top_number)
       IN /\ (outcome = "raised") = fresh.raised
          /\ ResultSet(output) = ResultSet(fresh.output)

\* C11: with sort set, the returned list is in ascending lexicographic order
\* of (length, size, sequence), length being the number of item occurrences
\* and size the number of itemsets of the Element's sequence, for Elements
\* of either atom type.
C11_SortedByLengthSizeSequence ==
    (Returned /\ args.sort /\ Val(minimum_support) >= 1) =>
       \A i \in DOMAIN output : \A j \in DOMAIN output :
          i < j =>
             LET p == sequence(output[i])
                 q == sequence(output[j])
                 kp == <<PatternLength(p), Len(p)>>
                 kq == <<PatternLength(q), Len(q)>>
             IN IF kp # kq THEN TupleLess(kp, kq) ELSE NestedLess(p, q)

\* the Elements the engine holds: the pool, the 1-Elements of the running
\* execute, the members of the queued classes and the returned list
HeldElements ==
    frequent \cup freq_1s \cup Range(output)
    \cup UNION {Range(grouped_elements[i].elements) : i \in DOMAIN grouped_elements}

StrictlyAscending(itemset) ==
    \A i \in DOMAIN itemset : \A j \in DOMAIN itemset :
       i < j => itemset[i] < itemset[j]

\* C12: every itemset of the sequence of every Element produced by join or
\* returned by execute is strictly ascending (sorted, no item twice), also
\* when the input itemsets are unsorted or repeat an item.
C12_ItemsetsSortedUnique ==
    \A e \in HeldElements :
       \A i \in DOMAIN sequence(e) : StrictlyAscending(sequence(e)[i])

\* a run on an input with an unsorted itemset and an itemset repeating an
\* item that returns an Element with an itemset of two items
C12_Witness ==
    /\ Returned
    /\ \E sid \in DOMAIN sequences : \E eid \in DOMAIN sequences[sid] :
          sequences[sid][eid] = <<2, 1>>
    /\ \E sid \in DOMAIN sequences : \E eid \in DOMAIN sequences[sid] :
          sequences[sid][eid] = <<1, 1>>
    /\ \E k \in DOMAIN output : \E i \in DOMAIN sequence(output[k]) :
          Len(sequence(output[k])[i]) = 2

\* the pairs of Elements that the engine joins or may join: two 1-Elements
\* of the configured input, or two members of one queued class
OneElementPairs ==
    IF pc = "enumerate"
    THEN LET ones == Freq1s(sequences, Val(minimum_support)) IN ones \X ones
    ELSE {}

ClassPairs ==
    UNION {Range(grouped_elements[i].elements)
             \X Range(grouped_elements[i].elements)
             : i \in DOMAIN grouped_elements}

\* C13: join is commutative: for two 1-Elements or two members of one
\* class, with the CMAP or with none, join(a, b) and join(b, a) hold the
\* same sequences with the same id-lists.
C13_JoinCommutes ==
    /\ \A pr \in OneElementPairs :
          join(pr[1], pr[2], EmptyCmap) = join(pr[2], pr[1], EmptyCmap)
    /\ \A pr \in ClassPairs :
          /\ join(pr[1], pr[2], cmap) = join(pr[2], pr[1], cmap)
          /\ join(pr[1], pr[2], EmptyCmap) = join(pr[2], pr[1], EmptyCmap)

\* a queued class with a sequence atom and an event atom whose join with
\* the CMAP gives a sequence atom, and two different 1-Elements whose join
\* gives an event atom and a sequence atom
C13_Witness ==
    /\ \E pr \in ClassPairs :
          /\ pr[1].conn_type = EVENT_ATOM_TYPE
          /\ pr[2].conn_type = SEQUENCE_ATOM_TYPE
          /\ \E e \in join(pr[1], pr[2], cmap) :
                e.conn_type = SEQUENCE_ATOM_TYPE
    /\ \E pr \in OneElementPairs :
          /\ pr[1] # pr[2]
          /\ \E e \in join(pr[1], pr[2], EmptyCmap) :
                e.conn_type = EVENT_ATOM_TYPE
          /\ \E e \in join(pr[1], pr[2], EmptyCmap) :
                e.conn_type = SEQUENCE_ATOM_TYPE

\* C14: CMAP pruning never changes the result: for every pair of Elements
\* joined during the DFS, the Elements of support >= min_support that join
\* gives with the CMAP of the run are those it gives with no CMAP.
C14_CmapPreservesJoins ==
    (pc = "enumerate") =>
       \A pr \in ClassPairs :
          FrequentOf(join(pr[1], pr[2], cmap), Val(minimum_support))
            = FrequentOf(join(pr[1], pr[2], EmptyCmap), Val(minimum_support))

\* a queued class with a pair that the CMAP prunes and whose join with no
\* CMAP is not empty, and a pair that it does not prune and whose join
\* reaches the support
C14_Witness ==
    /\ pc = "enumerate"
    /\ Val(minimum_support) = 2
    /\ \E pr \in ClassPairs :
          /\ skip_by_cmap(pr[1], pr[2], cmap)
          /\ join(pr[1], pr[2], EmptyCmap) # {}
    /\ \E pr \in ClassPairs :
          /\ pr[1] # pr[2]
          /\ ~skip_by_cmap(pr[1], pr[2], cmap)
          /\ FrequentOf(join(pr[1], pr[2], cmap), Val(minimum_support)) # {}

\* the number of item occurrences of the longest input sequence
LongestInput(seqs) ==
    LET total(sid) ==
          SumSeq([r \in DOMAIN EventsOf(seqs, sid) |->
                    Cardinality(EventsOf(seqs, sid)[r])])
    IN CHOOSE n \in {total(sid) : sid \in DOMAIN seqs} :
          \A sid \in DOMAIN seqs : total(sid) <= n

\* the number of queued classes whose Elements have length L
ClassesOfLength(queue, L) ==
    Cardinality({i \in DOMAIN queue :
                   sequence_length(queue[i].elements[1]) = L})

\* every queued class holds Elements of a length in 1..bound
QueueWithin(queue, bound) ==
    \A i \in DOMAIN queue :
       sequence_length(queue[i].elements[1]) \in 1..bound

\* queue q is below queue r: at the shortest length where their numbers of
\* classes differ, q has fewer
QueueLess(q, r, bound) ==
    \E L \in 1..bound :
       /\ ClassesOfLength(q, L) < ClassesOfLength(r, L)
       /\ \A K \in 1..(L - 1) : ClassesOfLength(q, K) = ClassesOfLength(r, K)

\* C15: execute terminates on every valid input: once it has started, the
\* work queue of classes becomes empty and the call returns, also with
\* max_length unset and with an item that repeats within a sequence.
\* It is stated through a variant of the loop: every step taken while
\* execute runs either returns or makes the queue smaller in a well-founded
\* order (the numbers of queued classes per Element length, compared from
\* the shortest length on), the lengths being bounded by the longest input
\* sequence; and while execute runs a step can be taken.
C15_ExecuteTerminates ==
    /\ []((pc = "enumerate" /\ grouped_elements # <<>>)
            => IdxOrders(Head(grouped_elements)) # {})
    /\ [][(pc = "enumerate") =>
          /\ QueueWithin(grouped_elements, LongestInput(sequences))
          /\ \/ Returned'
             \/ /\ pc' = "enumerate"
                /\ QueueWithin(grouped_elements', LongestInput(sequences))
                /\ QueueLess(grouped_elements', grouped_elements,
                             LongestInput(sequences))]_vars

\* a returned pattern in which an item follows itself twice, found by
\* joining an Element with itself at two levels of the DFS
C15_Witness ==
    /\ Returned
    /\ IsNone(args.max_length)
    /\ <<<<1>>, <<1>>, <<1>>>> \in OutputSequences

\* C16: with max_length = 2 and top_number unset, execute returns every
\* 2-sequence of support >= min_support, and every frequent item is
\* contained in some returned Element.
C16_TwoSequencesReturned ==
    (/\ Returned
     /\ args.max_length = Some(2)
     /\ IsNone(args.top_number)
     /\ Val(minimum_support) >= 1)
    => LET fp == FrequentPatterns(sequences, Val(minimum_support))
       IN /\ \A p \in fp : PatternLength(p) = 2 => p \in OutputSequences
          /\ \A p \in fp :
                PatternLength(p) = 1 =>
                   \E q \in OutputSequences : SubPattern(p, q)

====
